---- MODULE Spec2Model ----
(***************************************************************************)
(* A model of the Intcode virtual machine of src/src/intcode.rs.           *)
(*                                                                         *)
(* The engine state is the five fields of IntcodeComputer.  The caller is  *)
(* modelled as a process that, while no run() call is in progress, may     *)
(* call input(v), read_at(pos) or run().  A run() call is the `while`      *)
(* loop of the source: one action per loop iteration, one per opcode.      *)
(* A panic ends the behaviour: the state in which it was raised is kept,   *)
(* with every assignment the code had made before it.                      *)
(***************************************************************************)
EXTENDS Integers, Sequences, FiniteSets, TLC

VARIABLES
    code,         \* the program image given to new()
    memory,       \* FxHashMap<Int, Int>: a function on the keys present
    input_queue,  \* VecDeque<Int>
    ip,
    rel_base,
    is_finished,
    pc,           \* "idle" (no call in progress), "running" (inside run()), "panicked"
    panic,        \* the panic raised, "none" when there is none
    rets,         \* history: the RunResult of every run() call that returned
    emitted,      \* history: the operand value of every output instruction executed
    submitted,    \* history: every value ever given to input()
    stored,       \* history: the value each completed input instruction wrote
    written,      \* history: address -> value an instruction last wrote there
    adjusted,     \* history: sum of the operands of the adjust-relative-base instructions executed
    late,         \* history: an input() call has come after a run() call had returned
    last_read     \* what the caller's latest read_at call returned, until its next call

vars == <<code, memory, input_queue, ip, rel_base, is_finished, pc, panic,
          rets, emitted, submitted, stored, written, adjusted, late, last_read>>

engine == <<memory, input_queue, ip, rel_base, is_finished>>

history == <<rets, emitted, submitted, stored, written, adjusted, late>>

-----------------------------------------------------------------------------
(* Bounds of the model.                                                    *)

\* Number of fragments a generated program is made of.
MaxFrags == 2

\* Number of input() calls in a behaviour.
MaxInputs == 2

\* Number of run() calls that return in a behaviour.
MaxRuns == 18

\* Magnitude of the values and addresses an instruction may write (Int is i128
\* in the source; the model stays far inside it, so no i128 overflow is reachable).
MaxAbs == 4000

\* Magnitude of the relative base.
MaxBase == 20

\* Largest magnitude of the instruction words the decoding is checked on: every
\* word of up to five decimal digits, of either sign.
MaxWord == 99999

InputVals == {-3, 0}

ProbeAddrs == {-1, 0, 100}

-----------------------------------------------------------------------------
(* Opcodes and parameter modes.                                            *)

OP_ADD == 1
OP_MUL == 2
OP_IN  == 3
OP_OUT == 4
OP_JMP == 5
OP_JMN == 6
OP_LT  == 7
OP_EQ  == 8
OP_RLB == 9
OP_END == 99

Position  == "Position"
Immediate == "Immediate"
Relative  == "Relative"

\* Param::default()
DefaultParam == [mode |-> Position, value |-> 0]

\* RunResult
Output(v) == [kind |-> "Output", value |-> v]
Finished  == [kind |-> "Finished", value |-> 0]

NoRead == [kind |-> "NoRead"]

-----------------------------------------------------------------------------
(* Rust integer arithmetic.                                                *)

\* `/` on Int: truncates toward zero.
Quot(a, b) == IF a >= 0 THEN a \div b ELSE -((-a) \div b)

\* rem_euclid: the remainder is never negative.
RemEuclid(a, b) == a % b

\* `%` on Int: the remainder has the sign of the dividend.
Rem(a, b) == a - b * Quot(a, b)

\* `as u8`: the low eight bits.
AsU8(x) == x % 256

InRange(x) == -MaxAbs <= x /\ x <= MaxAbs

-----------------------------------------------------------------------------
(* The programs the engine is constructed from.                            *)

Echo == <<3, 0, 4, 0, 99>>

Quine == <<109, 1, 204, -1, 1001, 100, 1, 100, 1008, 100, 16, 101, 1006, 101, 0, 99>>

ModeMul == <<1002, 4, 3, 4, 33>>

ModeAdd == <<1101, 100, -1, 4, 0>>

\* Single instructions that end in a panic, and an immediate-mode output.
ImmediateInput == <<103, 0>>

NegativeWord == <<-1>>

BadMode == <<304, 0>>

OutputImmediate == <<104, 7>>

\* The programs of test_day2.
Day2Sum == <<1, 9, 10, 3, 2, 3, 11, 0, 99, 30, 40, 50>>

Day2Add == <<1, 0, 0, 0, 99>>

Day2Mul == <<2, 3, 0, 3, 99>>

Day2Square == <<2, 4, 4, 5, 99, 0>>

Day2SelfModify == <<1, 1, 1, 4, 99, 5, 6, 0, 99>>

\* A jump whose target is in relative mode: the relative base is 2, the target
\* is the content of address 4 + 2.
JumpModes == <<109, 2, 2105, 1, 4, 99, 7, 104, 5, 99>>

\* add, multiply, less-than and equals with the destination in immediate mode.
ImmediateTargets ==
    { <<11101, 1, 1, 0>>, <<11102, 2, 2, 0>>, <<11107, 1, 2, 0>>, <<11108, 1, 1, 0>> }

\* The echo program of test_day5 twice in a row.
EchoTwice == <<3, 0, 4, 0, 3, 0, 4, 0, 99>>

Day2Programs == {Day2Sum, Day2Add, Day2Mul, Day2Square, Day2SelfModify}

TestPrograms ==
    {Echo, Quine, ModeMul, ModeAdd, ImmediateInput, NegativeWord, BadMode, OutputImmediate,
     JumpModes, EchoTwice}
        \cup Day2Programs \cup ImmediateTargets

Fragments ==
    { <<99>>,
      <<3, 0>>, <<203, -1>>,
      <<4, 0>>, <<204, 1>>,
      <<109, -2>>,
      <<2201, 1, 2, -1>>, <<1002, 1, 3, 0>>,
      <<1105, 1, 0>>, <<1006, 7, 0>>,
      <<1107, 1, 2, 7>>, <<20208, 0, 0, 1>> }

RECURSIVE Concat(_)
Concat(ss) == IF ss = << >> THEN << >> ELSE Head(ss) \o Concat(Tail(ss))

Generated ==
    { Concat(fs) : fs \in UNION { [1..n -> Fragments] : n \in 0..MaxFrags } }

Programs == TestPrograms \cup Generated

-----------------------------------------------------------------------------
(* IntcodeComputer::new                                                    *)

new_memory(c) == [i \in 0..(Len(c) - 1) |-> c[i + 1]]

Init ==
    /\ code \in Programs
    /\ memory = new_memory(code)
    /\ input_queue = << >>
    /\ ip = 0
    /\ rel_base = 0
    /\ is_finished = FALSE
    /\ pc = "idle"
    /\ panic = "none"
    /\ rets = << >>
    /\ emitted = << >>
    /\ submitted = << >>
    /\ stored = << >>
    /\ written = << >>
    /\ adjusted = 0
    /\ late = FALSE
    /\ last_read = NoRead

-----------------------------------------------------------------------------
(* Memory access.                                                          *)

\* read_at: memory.get(&pos).copied().unwrap_or_default()
read_at(pos) == IF pos \in DOMAIN memory THEN memory[pos] ELSE 0

param_value_literal(param) == param.value

\* param_value
param_value(param) ==
    CASE param.mode = Immediate -> param.value
      [] param.mode = Position  -> read_at(param.value)
      [] param.mode = Relative  -> read_at(param.value + rel_base)

\* The address write_to computes; only for a parameter not in immediate mode.
write_addr_ignores_base(param) == param.value

write_addr(param) ==
    CASE param.mode = Position -> param.value
      [] param.mode = Relative -> param.value + rel_base

\* memory.insert(addr, value)
insert(m, addr, value) ==
    [a \in (DOMAIN m) \cup {addr} |-> IF a = addr THEN value ELSE m[a]]

write_to_literal(param, value) ==
    /\ InRange(value)
    /\ memory' = insert(memory, IF param.mode = Immediate THEN param.value
                                ELSE write_addr(param), value)
    /\ written' = insert(written, IF param.mode = Immediate THEN param.value
                                  ELSE write_addr(param), value)
    /\ pc' = "running"
    /\ panic' = "none"

\* write_to: panics on an immediate-mode parameter, inserts otherwise.
write_to(param, value) ==
    IF param.mode = Immediate
    THEN /\ pc' = "panicked"
         /\ panic' = "Output addresses cannot be in immediate mode"
         /\ UNCHANGED <<memory, written>>
    ELSE /\ InRange(write_addr(param))
         /\ InRange(value)
         /\ memory' = insert(memory, write_addr(param), value)
         /\ written' = insert(written, write_addr(param), value)
         /\ pc' = "running"
         /\ panic' = "none"

-----------------------------------------------------------------------------
(* parse_operation                                                         *)

n_params(opcode) ==
    CASE opcode = OP_END -> 0
      [] opcode \in {OP_IN, OP_OUT, OP_RLB} -> 1
      [] opcode \in {OP_JMP, OP_JMN} -> 2
      [] opcode \in {OP_ADD, OP_MUL, OP_EQ, OP_LT} -> 3
      [] OTHER -> -1

param_mode_lenient(digit) ==
    CASE digit = 1 -> Immediate
      [] digit = 2 -> Relative
      [] OTHER -> Position

param_mode(digit) ==
    CASE digit = 0 -> Position
      [] digit = 1 -> Immediate
      [] digit = 2 -> Relative
      [] OTHER -> "unknown"

\* The loop with `flags /= 10` left out.
RECURSIVE parse_params_same_digit(_, _, _, _)
parse_params_same_digit(i, n, flags, params) ==
    IF i >= n THEN [panic |-> "none", params |-> params]
    ELSE LET mode == param_mode(Rem(flags, 10))
             value == read_at(ip + i + 1)
         IN IF mode = "unknown"
            THEN [panic |-> "Unknown param mode", params |-> params]
            ELSE parse_params_same_digit(i + 1, n, flags,
                              [params EXCEPT ![i + 1] = [mode |-> mode, value |-> value]])

\* The loop followed by a check that no digit of flags is left over.
RECURSIVE parse_params_strict(_, _, _, _)
parse_params_strict(i, n, flags, params) ==
    IF i >= n
    THEN [panic |-> IF flags = 0 THEN "none" ELSE "Unknown param mode", params |-> params]
    ELSE LET mode == param_mode(Rem(flags, 10))
             value == read_at(ip + i + 1)
         IN IF mode = "unknown"
            THEN [panic |-> "Unknown param mode", params |-> params]
            ELSE parse_params_strict(i + 1, n, Quot(flags, 10),
                              [params EXCEPT ![i + 1] = [mode |-> mode, value |-> value]])

\* The loop `for i in 0..n_params`: i counts from 0, params is indexed from 1.
RECURSIVE parse_params(_, _, _, _)
parse_params(i, n, flags, params) ==
    IF i >= n THEN [panic |-> "none", params |-> params]
    ELSE LET mode == param_mode(Rem(flags, 10))
             value == read_at(ip + i + 1)
         IN IF mode = "unknown"
            THEN [panic |-> "Unknown param mode", params |-> params]
            ELSE parse_params(i + 1, n, Quot(flags, 10),
                              [params EXCEPT ![i + 1] = [mode |-> mode, value |-> value]])

\* The result of parse_operation in the current state: the panic it raises
\* (with ip left as it was), or the opcode, the parameters and the advanced ip.
parse_operation ==
    IF ip \notin DOMAIN memory
    THEN [panic |-> "key not found", opcode |-> 0, params |-> << >>, ip |-> ip]
    ELSE LET opcode == AsU8(Rem(memory[ip], 100))
             flags == Quot(memory[ip], 100)
             n == n_params(opcode)
         IN IF n < 0
            THEN [panic |-> "Unknown opcode", opcode |-> opcode, params |-> << >>, ip |-> ip]
            ELSE LET parsed == parse_params(0, n, flags,
                                            <<DefaultParam, DefaultParam, DefaultParam>>)
                 IN [panic |-> parsed.panic, opcode |-> opcode, params |-> parsed.params,
                     ip |-> IF parsed.panic = "none" THEN ip + 1 + n ELSE ip]

-----------------------------------------------------------------------------
(* The caller's operations.                                                *)

\* input with the queue replaced by the value instead of extended by it.
input_replace(value) == input_queue' = <<value>>

\* input: self.input_queue.push_back(value)
input(value) == input_queue' = Append(input_queue, value)

Input ==
    /\ pc = "idle"
    /\ Len(submitted) < MaxInputs
    /\ \E value \in InputVals :
          /\ input(value)
          /\ submitted' = Append(submitted, value)
    /\ late' = (late \/ rets # << >>)
    /\ last_read' = NoRead
    /\ UNCHANGED <<code, memory, ip, rel_base, is_finished, pc, panic,
                   rets, emitted, stored, written, adjusted>>

ReadAtInsert(pos) ==
    /\ last_read' = [kind |-> "Read", pos |-> pos, value |-> read_at(pos)]
    /\ memory' = IF pos \in DOMAIN memory THEN memory ELSE insert(memory, pos, 0)
    /\ UNCHANGED <<input_queue, ip, rel_base, is_finished>>

\* A read_at(pos) call of the caller: takes &self, returns the value.
ReadAt(pos) ==
    /\ last_read' = [kind |-> "Read", pos |-> pos, value |-> read_at(pos)]
    /\ UNCHANGED engine

CallReadAt ==
    /\ pc = "idle"
    /\ \E pos \in ProbeAddrs : ReadAt(pos)
    /\ UNCHANGED <<code, pc, panic, rets, emitted, submitted, stored, written, adjusted, late>>

\* Entry of a run() call.
RunCall ==
    /\ pc = "idle"
    /\ Len(rets) < MaxRuns
    /\ pc' = "running"
    /\ last_read' = NoRead
    /\ UNCHANGED <<code, memory, input_queue, ip, rel_base, is_finished, panic,
                   rets, emitted, submitted, stored, written, adjusted, late>>

\* `while !self.is_finished` is false: run() returns RunResult::Finished.
RunReturn ==
    /\ pc = "running"
    /\ is_finished
    /\ rets' = Append(rets, Finished)
    /\ pc' = "idle"
    /\ UNCHANGED <<code, memory, input_queue, ip, rel_base, is_finished, panic,
                   emitted, submitted, stored, written, adjusted, late, last_read>>

-----------------------------------------------------------------------------
(* The instructions.  Each takes the parameters parse_operation returned;  *)
(* the instruction pointer has been advanced when they run.                *)

op_add(params) ==
    write_to(params[3], param_value(params[1]) + param_value(params[2]))

op_mul_adds(params) ==
    write_to(params[3], param_value(params[1]) + param_value(params[2]))

op_mul(params) ==
    write_to(params[3], param_value(params[1]) * param_value(params[2]))

op_in_lifo(params) ==
    IF input_queue = << >>
    THEN /\ pc' = "panicked"
         /\ panic' = "No input available"
         /\ UNCHANGED <<input_queue, memory, written, stored>>
    ELSE /\ input_queue' = SubSeq(input_queue, 1, Len(input_queue) - 1)
         /\ write_to(params[1], input_queue[Len(input_queue)])
         /\ stored' = IF params[1].mode = Immediate
                      THEN stored
                      ELSE Append(stored, input_queue[Len(input_queue)])

op_in_default(params) ==
    /\ input_queue' = IF input_queue = << >> THEN << >> ELSE Tail(input_queue)
    /\ write_to(params[1], IF input_queue = << >> THEN 0 ELSE Head(input_queue))
    /\ stored' = IF params[1].mode = Immediate \/ input_queue = << >>
                 THEN stored
                 ELSE Append(stored, Head(input_queue))

\* pop_front().expect("No input available"), then write_to.
op_in(params) ==
    IF input_queue = << >>
    THEN /\ pc' = "panicked"
         /\ panic' = "No input available"
         /\ UNCHANGED <<input_queue, memory, written, stored>>
    ELSE /\ input_queue' = Tail(input_queue)
         /\ write_to(params[1], Head(input_queue))
         /\ stored' = IF params[1].mode = Immediate
                      THEN stored
                      ELSE Append(stored, Head(input_queue))

\* The OUT arm of run(): return RunResult::Output(ret).
op_out_raw(params) ==
    /\ rets' = Append(rets, Output(params[1].value))
    /\ pc' = "idle"

op_out_continue(params) ==
    /\ rets' = rets
    /\ pc' = "running"

op_out(params) ==
    /\ rets' = Append(rets, Output(param_value(params[1])))
    /\ pc' = "idle"

op_jmp_relative(params, advanced) ==
    IF param_value(params[1]) # 0 THEN advanced + param_value(params[2]) ELSE advanced

\* The instruction pointer after op_jmp; advanced is the pointer parse_operation left.
op_jmp(params, advanced) ==
    IF param_value(params[1]) # 0 THEN param_value(params[2]) ELSE advanced

op_jmn(params, advanced) ==
    IF param_value(params[1]) = 0 THEN param_value(params[2]) ELSE advanced

\* `(v1 < v2) as Int`
op_lt(params) ==
    write_to(params[3], IF param_value(params[1]) < param_value(params[2]) THEN 1 ELSE 0)

op_eq(params) ==
    write_to(params[3], IF param_value(params[1]) = param_value(params[2]) THEN 1 ELSE 0)

op_rlb_set(params) == rel_base' = param_value(params[1])

op_rlb_subtracts(params) == rel_base' = rel_base - param_value(params[1])

op_rlb(params) == rel_base' = rel_base + param_value(params[1])

-----------------------------------------------------------------------------
(* One iteration of the loop of run().                                     *)

\* The loop is entered: a call is in progress and the engine has not halted.
\* The arm `x => panic!("Unexpected opcode")` of the match in run() is never
\* taken: parse_operation has already panicked on every such opcode.
InLoopUnguarded == pc = "running"

InLoop == pc = "running" /\ ~is_finished

Decoded(opcode) ==
    /\ InLoop
    /\ parse_operation.panic = "none"
    /\ parse_operation.opcode = opcode

\* parse_operation panics: missing key at ip, unknown opcode, unknown mode.
ParsePanic ==
    /\ InLoop
    /\ parse_operation.panic # "none"
    /\ pc' = "panicked"
    /\ panic' = parse_operation.panic
    /\ UNCHANGED <<code, engine, history, last_read>>

StepAdd ==
    /\ Decoded(OP_ADD)
    /\ ip' = parse_operation.ip
    /\ op_add(parse_operation.params)
    /\ UNCHANGED <<code, input_queue, rel_base, is_finished,
                   rets, emitted, submitted, stored, adjusted, late, last_read>>

StepMul ==
    /\ Decoded(OP_MUL)
    /\ ip' = parse_operation.ip
    /\ op_mul(parse_operation.params)
    /\ UNCHANGED <<code, input_queue, rel_base, is_finished,
                   rets, emitted, submitted, stored, adjusted, late, last_read>>

StepIn ==
    /\ Decoded(OP_IN)
    /\ ip' = parse_operation.ip
    /\ op_in(parse_operation.params)
    /\ UNCHANGED <<code, rel_base, is_finished, rets, emitted, submitted, adjusted, late,
                   last_read>>

StepOut ==
    /\ Decoded(OP_OUT)
    /\ ip' = parse_operation.ip
    /\ op_out(parse_operation.params)
    /\ emitted' = Append(emitted, param_value(parse_operation.params[1]))
    /\ UNCHANGED <<code, memory, input_queue, rel_base, is_finished, panic,
                   submitted, stored, written, adjusted, late, last_read>>

StepJmp ==
    /\ Decoded(OP_JMP)
    /\ ip' = op_jmp(parse_operation.params, parse_operation.ip)
    /\ UNCHANGED <<code, memory, input_queue, rel_base, is_finished, pc, panic,
                   history, last_read>>

StepJmn ==
    /\ Decoded(OP_JMN)
    /\ ip' = op_jmn(parse_operation.params, parse_operation.ip)
    /\ UNCHANGED <<code, memory, input_queue, rel_base, is_finished, pc, panic,
                   history, last_read>>

StepLt ==
    /\ Decoded(OP_LT)
    /\ ip' = parse_operation.ip
    /\ op_lt(parse_operation.params)
    /\ UNCHANGED <<code, input_queue, rel_base, is_finished,
                   rets, emitted, submitted, stored, adjusted, late, last_read>>

StepEq ==
    /\ Decoded(OP_EQ)
    /\ ip' = parse_operation.ip
    /\ op_eq(parse_operation.params)
    /\ UNCHANGED <<code, input_queue, rel_base, is_finished,
                   rets, emitted, submitted, stored, adjusted, late, last_read>>

StepRlb ==
    /\ Decoded(OP_RLB)
    /\ ip' = parse_operation.ip
    /\ op_rlb(parse_operation.params)
    /\ -MaxBase <= rel_base' /\ rel_base' <= MaxBase
    /\ adjusted' = adjusted + param_value(parse_operation.params[1])
    /\ UNCHANGED <<code, memory, input_queue, is_finished, pc, panic,
                   rets, emitted, submitted, stored, written, late, last_read>>

\* Opcodes::END => self.is_finished = true
StepEnd ==
    /\ Decoded(OP_END)
    /\ ip' = parse_operation.ip
    /\ is_finished' = TRUE
    /\ UNCHANGED <<code, memory, input_queue, rel_base, pc, panic,
                   history, last_read>>

Next ==
    \/ Input
    \/ CallReadAt
    \/ RunCall
    \/ RunReturn
    \/ ParsePanic
    \/ StepAdd
    \/ StepMul
    \/ StepIn
    \/ StepOut
    \/ StepJmp
    \/ StepJmn
    \/ StepLt
    \/ StepEq
    \/ StepRlb
    \/ StepEnd

Spec == Init /\ [][Next]_vars

\* parse_operation applied to every instruction word from -MaxWord to MaxWord: the
\* engine is constructed from a single instruction and run, with no input.
\* Instruction words with digits above the mode digits of their parameters.
HaltWithDigits == <<30099>>

OutputWithDigit == <<1104, 6>>

JumpWithDigit == <<31105, 1, 4, 99, 104, 8, 99>>

DecodePrograms ==
    { <<w, 0, 0, 0>> : w \in (-MaxWord)..MaxWord }
        \cup {ModeMul, ModeAdd, HaltWithDigits, OutputWithDigit, JumpWithDigit}

InitDecode ==
    /\ code \in DecodePrograms
    /\ memory = new_memory(code)
    /\ input_queue = << >>
    /\ ip = 0
    /\ rel_base = 0
    /\ is_finished = FALSE
    /\ pc = "idle"
    /\ panic = "none"
    /\ rets = << >>
    /\ emitted = << >>
    /\ submitted = << >>
    /\ stored = << >>
    /\ written = << >>
    /\ adjusted = 0
    /\ late = FALSE
    /\ last_read = NoRead

NextDecode ==
    \/ RunCall
    \/ RunReturn
    \/ ParsePanic
    \/ StepAdd
    \/ StepMul
    \/ StepIn
    \/ StepOut
    \/ StepJmp
    \/ StepJmn
    \/ StepLt
    \/ StepEq
    \/ StepRlb
    \/ StepEnd

SpecDecode == InitDecode /\ [][NextDecode]_vars

-----------------------------------------------------------------------------
-----------------------------------------------------------------------------
(* The engine as a value, for comparing two engines built from one program. *)
(* A record of the fields of IntcodeComputer; run() is applied to it as a   *)
(* function.                                                                *)

\* The longest run() call followed, in instructions.
MaxSteps == 64

\* IntcodeComputer::new(code), then input(v) for every v of values, in order.
EngineWith(c, values) ==
    [memory |-> new_memory(c), input_queue |-> values, ip |-> 0, rel_base |-> 0,
     is_finished |-> FALSE]

EngineReadAt(e, pos) == IF pos \in DOMAIN e.memory THEN e.memory[pos] ELSE 0

Continue == [kind |-> "Continue", value |-> 0]
Panicked == [kind |-> "Panicked", value |-> 0]
Diverged == [kind |-> "Diverged", value |-> 0]

\* One iteration of the loop of run() on the engine e: the engine after it and
\* what the iteration does to the call: continue, return a result, or panic.
EngineStep(e) ==
    IF e.ip \notin DOMAIN e.memory THEN [engine |-> e, ret |-> Panicked]
    ELSE
    LET opcode == AsU8(Rem(e.memory[e.ip], 100))
        flags == Quot(e.memory[e.ip], 100)
        n == n_params(opcode)
        mode(i) == param_mode(Rem(Quot(flags, 10 ^ (i - 1)), 10))
        raw(i) == EngineReadAt(e, e.ip + i)
        val(i) == CASE mode(i) = Immediate -> raw(i)
                    [] mode(i) = Position -> EngineReadAt(e, raw(i))
                    [] mode(i) = Relative -> EngineReadAt(e, raw(i) + e.rel_base)
        addr(i) == IF mode(i) = Relative THEN raw(i) + e.rel_base ELSE raw(i)
        adv == [e EXCEPT !.ip = e.ip + 1 + n]
        store(d, i, x) ==
            IF mode(i) = Immediate THEN [engine |-> d, ret |-> Panicked]
            ELSE [engine |-> [d EXCEPT !.memory = insert(@, addr(i), x)], ret |-> Continue]
    IN  IF n < 0 \/ \E i \in 1..n : mode(i) = "unknown"
        THEN [engine |-> e, ret |-> Panicked]
        ELSE CASE opcode = OP_ADD -> store(adv, 3, val(1) + val(2))
               [] opcode = OP_MUL -> store(adv, 3, val(1) * val(2))
               [] opcode = OP_IN ->
                    IF e.input_queue = << >> THEN [engine |-> adv, ret |-> Panicked]
                    ELSE store([adv EXCEPT !.input_queue = Tail(@)], 1, Head(e.input_queue))
               [] opcode = OP_OUT -> [engine |-> adv, ret |-> Output(val(1))]
               [] opcode = OP_JMP ->
                    [engine |-> IF val(1) # 0 THEN [adv EXCEPT !.ip = val(2)] ELSE adv,
                     ret |-> Continue]
               [] opcode = OP_JMN ->
                    [engine |-> IF val(1) = 0 THEN [adv EXCEPT !.ip = val(2)] ELSE adv,
                     ret |-> Continue]
               [] opcode = OP_LT -> store(adv, 3, IF val(1) < val(2) THEN 1 ELSE 0)
               [] opcode = OP_EQ -> store(adv, 3, IF val(1) = val(2) THEN 1 ELSE 0)
               [] opcode = OP_RLB ->
                    [engine |-> [adv EXCEPT !.rel_base = @ + val(1)], ret |-> Continue]
               [] opcode = OP_END ->
                    [engine |-> [adv EXCEPT !.is_finished = TRUE], ret |-> Continue]

\* One run() call on the engine e: the engine when the call ends and what it
\* returns; Panicked if it panics, Diverged if it is still going after fuel
\* instructions.
RECURSIVE EngineRun(_, _)
EngineRun(e, fuel) ==
    IF e.is_finished THEN [engine |-> e, ret |-> Finished]
    ELSE IF fuel = 0 THEN [engine |-> e, ret |-> Diverged]
    ELSE LET s == EngineStep(e)
         IN IF s.ret = Continue THEN EngineRun(s.engine, fuel - 1) ELSE s

\* k run() calls in a row on the engine e: the engine after the last and the
\* results in order; a call that does not return ends the sequence.
RECURSIVE EngineRuns(_, _, _)
EngineRuns(e, k, results) ==
    IF k = 0 THEN [engine |-> e, rets |-> results]
    ELSE LET r == EngineRun(e, MaxSteps)
         IN IF r.ret \in {Panicked, Diverged}
            THEN [engine |-> r.engine, rets |-> Append(results, r.ret)]
            ELSE EngineRuns(r.engine, k - 1, Append(results, r.ret))

-----------------------------------------------------------------------------
(* Full-width integers.  `pub type Int = i128`: a value is its two's        *)
(* complement, IntBytes bytes with the least significant first.  Addresses, *)
(* ip and rel_base are followed while they fit three bytes.                 *)

IntBits == 128

IntBytes == IntBits \div 8

\* The low k bytes of the two's complement of the integer n.
RECURSIVE Bytes(_, _)
Bytes(n, k) == IF k = 0 THEN << >> ELSE <<n % 256>> \o Bytes(n \div 256, k - 1)

WideZero == Bytes(0, IntBytes)

IsNegative(w) == w[Len(w)] >= 128

\* w at the width of k bytes, k >= Len(w): the sign is extended.
Extend(w, k) == w \o [i \in 1..(k - Len(w)) |-> IF IsNegative(w) THEN 255 ELSE 0]

Low(w, k) == SubSeq(w, 1, k)

\* An Int of 32 bits.
Wrap32(w) == Extend(Low(w, 4), IntBytes)

\* The value an Int holds of an exact result w: its low IntBits bits.
Wrap(w) == Low(w, IntBytes)

RECURSIVE AddFrom(_, _, _, _)
AddFrom(a, b, i, carry) ==
    IF i > Len(a) THEN << >>
    ELSE <<(a[i] + b[i] + carry) % 256>> \o AddFrom(a, b, i + 1, (a[i] + b[i] + carry) \div 256)

\* a + b exactly, at twice the width of Int.
ExactSum(a, b) == AddFrom(Extend(a, 2 * IntBytes), Extend(b, 2 * IntBytes), 1, 0)

RECURSIVE Dot(_, _, _, _)
Dot(a, b, k, i) == IF i > k THEN 0 ELSE a[i] * b[k + 1 - i] + Dot(a, b, k, i + 1)

RECURSIVE MulFrom(_, _, _, _)
MulFrom(a, b, k, carry) ==
    IF k > Len(a) THEN << >>
    ELSE <<(Dot(a, b, k, 1) + carry) % 256>>
             \o MulFrom(a, b, k + 1, (Dot(a, b, k, 1) + carry) \div 256)

\* a * b exactly, at twice the width of Int.
ExactProduct(a, b) == MulFrom(Extend(a, 2 * IntBytes), Extend(b, 2 * IntBytes), 1, 0)

\* The exact result w does not fit an Int: a build with overflow checks panics,
\* a build without them keeps Wrap(w).
Overflows(w) == w # Extend(Wrap(w), 2 * IntBytes)

RECURSIVE LessFrom(_, _, _)
LessFrom(a, b, i) ==
    IF i = 0 THEN FALSE
    ELSE IF a[i] # b[i] THEN a[i] < b[i]
    ELSE LessFrom(a, b, i - 1)

\* a < b on Int.
WideLess(a, b) ==
    IF IsNegative(a) # IsNegative(b) THEN IsNegative(a) ELSE LessFrom(a, b, Len(a))

FitsSmall(w) == w = Extend(Low(w, 3), Len(w))

\* The integer a value that fits three bytes stands for.
Small(w) == w[1] + 256 * w[2] + 65536 * w[3] - (IF IsNegative(w) THEN 16777216 ELSE 0)

\* w * m + c at the width of w, for small m and c.
RECURSIVE TimesPlus(_, _, _, _)
TimesPlus(w, m, c, i) ==
    IF i > Len(w) THEN << >>
    ELSE <<(w[i] * m + c) % 256>> \o TimesPlus(w, m, (w[i] * m + c) \div 256, i + 1)

\* x.parse() of From<T>: a decimal literal is given as its digits in groups of
\* four, the most significant group first, every group with the sign of the
\* number; a number of few digits is a single group.
RECURSIVE parse(_, _)
parse(groups, acc) ==
    IF groups = << >> THEN acc
    ELSE parse(Tail(groups), TimesPlus(acc, 10000, Head(groups), 1))

\* A program of small words as a program of literals.
Lift(p) == [i \in DOMAIN p |-> <<p[i]>>]

\* test_day9: "Produces a 16-digit number".
BigProduct == Lift(<<1102>>) \o <<<<3491, 5192>>, <<3491, 5192>>>> \o Lift(<<7, 4, 7, 99, 0>>)

\* test_day9: "Produces the large number in the middle".
BigLiteral == <<<<104>>, <<1125, 8999, 684, 2624>>, <<99>>>>

\* 34915192, 2^50, -(2^50), 2^64 and 2^127 - 1.
WideOperands ==
    { <<3491, 5192>>,
      <<1125, 8999, 684, 2624>>,
      <<-1125, -8999, -684, -2624>>,
      <<1844, 6744, 737, 955, 1616>>,
      <<170, 1411, 8346, 469, 2317, 3168, 7303, 7158, 8410, 5727>> }

\* Programs that add, multiply or compare two operands and output the result.
WideArithmetic ==
    { Lift(<<op>>) \o <<a, b>> \o Lift(<<7, 4, 7, 99, 0>>) :
          op \in {1101, 1102, 1107, 1108}, a \in WideOperands, b \in WideOperands }

\* Programs that read a value, move it through the relative base and a jump,
\* and output it.
WideEcho ==
    { Lift(<<3, 0, 4, 0, 99>>),
      Lift(<<109, 3, 203, 0, 1005, 3, 7, 204, 0>>),
      Lift(<<3, 1, 1006, 1, 6, 99, 104>>) \o <<<<1844, 6744, 737, 955, 1616>>>> }

WidePrograms ==
    {BigProduct, BigLiteral} \cup WideArithmetic \cup WideEcho
        \cup { Lift(p) : p \in {Quine, JumpModes, BadMode, NegativeWord, ImmediateInput} }

WideInputVals == { parse(<<1125, 8999, 684, 2624>>, WideZero), WideZero }

InitWide ==
    /\ code \in WidePrograms
    /\ memory = [i \in 0..(Len(code) - 1) |-> parse(code[i + 1], WideZero)]
    /\ input_queue = << >>
    /\ ip = 0
    /\ rel_base = 0
    /\ is_finished = FALSE
    /\ pc = "idle"
    /\ panic = "none"
    /\ rets = << >>
    /\ emitted = << >>
    /\ submitted = << >>
    /\ stored = << >>
    /\ written = << >>
    /\ adjusted = 0
    /\ late = FALSE
    /\ last_read = NoRead

\* input(value) with a full-width value.
WideInput ==
    /\ pc = "idle"
    /\ Len(submitted) < MaxInputs
    /\ \E value \in WideInputVals :
          /\ input(value)
          /\ submitted' = Append(submitted, value)
    /\ late' = (late \/ rets # << >>)
    /\ last_read' = NoRead
    /\ UNCHANGED <<code, memory, ip, rel_base, is_finished, pc, panic,
                   rets, emitted, stored, written, adjusted>>

\* read_at on an address of the model and on an address held in an Int.
WideReadAt(pos) == IF pos \in DOMAIN memory THEN memory[pos] ELSE WideZero

WideAt(w) == IF FitsSmall(w) THEN WideReadAt(Small(w)) ELSE WideZero

\* The fields of the engine inside a call, as a record.
Running ==
    [memory |-> memory, input_queue |-> input_queue, ip |-> ip, rel_base |-> rel_base,
     is_finished |-> is_finished, pc |-> "running", panic |-> "none", rets |-> rets]

Panic(d, message) == [d EXCEPT !.pc = "panicked", !.panic = message]

\* What one iteration of the loop of run() can lead to: parse_operation, then
\* the instruction.  Empty where a word, an address or the relative base leaves
\* three bytes; two outcomes where an addition or a multiplication overflows.
WideOutcomes ==
    IF ip \notin DOMAIN memory THEN {Panic(Running, "key not found")}
    ELSE IF ~FitsSmall(memory[ip]) THEN {}
    ELSE
    LET opcode == AsU8(Rem(Small(memory[ip]), 100))
        flags == Quot(Small(memory[ip]), 100)
        n == n_params(opcode)
        mode(i) == param_mode(Rem(Quot(flags, 10 ^ (i - 1)), 10))
        raw(i) == WideReadAt(ip + i)
        based(i) == ExactSum(raw(i), Bytes(rel_base, IntBytes))
        addr(i) == IF mode(i) = Relative THEN Wrap(based(i)) ELSE raw(i)
        val(i) == IF mode(i) = Immediate THEN raw(i) ELSE WideAt(addr(i))
        adv == [Running EXCEPT !.ip = ip + 1 + n]
        store(d, i, x) ==
            IF mode(i) = Immediate
            THEN {Panic(d, "Output addresses cannot be in immediate mode")}
            ELSE IF ~FitsSmall(addr(i)) THEN {}
            ELSE {[d EXCEPT !.memory = insert(@, Small(addr(i)), x)]}
        jump(taken) ==
            IF ~taken THEN {adv}
            ELSE IF ~FitsSmall(val(2)) THEN {}
            ELSE {[adv EXCEPT !.ip = Small(val(2))]}
        exact == IF opcode = OP_ADD THEN ExactSum(val(1), val(2))
                 ELSE ExactProduct(val(1), val(2))
        overflow ==
            \/ opcode \in {OP_ADD, OP_MUL} /\ Overflows(exact)
            \/ \E i \in 1..n : mode(i) = Relative /\ Overflows(based(i))
        done ==
            CASE opcode \in {OP_ADD, OP_MUL} -> store(adv, 3, Wrap(exact))
              [] opcode = OP_IN ->
                    IF input_queue = << >> THEN {Panic(adv, "No input available")}
                    ELSE store([adv EXCEPT !.input_queue = Tail(@)], 1, Head(input_queue))
              [] opcode = OP_OUT ->
                    {[adv EXCEPT !.pc = "idle", !.rets = Append(@, Output(val(1)))]}
              [] opcode = OP_JMP -> jump(val(1) # WideZero)
              [] opcode = OP_JMN -> jump(val(1) = WideZero)
              [] opcode = OP_LT ->
                    store(adv, 3, Bytes(IF WideLess(val(1), val(2)) THEN 1 ELSE 0, IntBytes))
              [] opcode = OP_EQ ->
                    store(adv, 3, Bytes(IF val(1) = val(2) THEN 1 ELSE 0, IntBytes))
              [] opcode = OP_RLB ->
                    IF FitsSmall(val(1)) /\ -MaxBase <= rel_base + Small(val(1))
                                         /\ rel_base + Small(val(1)) <= MaxBase
                    THEN {[adv EXCEPT !.rel_base = @ + Small(val(1))]}
                    ELSE {}
              [] opcode = OP_END -> {[adv EXCEPT !.is_finished = TRUE]}
    IN  IF n < 0 THEN {Panic(Running, "Unknown opcode")}
        ELSE IF \E i \in 1..n : mode(i) = "unknown"
        THEN {Panic(Running, "Unknown param mode")}
        ELSE done \cup (IF overflow THEN {Panic(adv, "arithmetic overflow")} ELSE {})

\* One iteration of the loop of run() on full-width values.
WideStep ==
    /\ InLoop
    /\ \E o \in WideOutcomes :
          /\ memory' = o.memory
          /\ input_queue' = o.input_queue
          /\ ip' = o.ip
          /\ rel_base' = o.rel_base
          /\ is_finished' = o.is_finished
          /\ pc' = o.pc
          /\ panic' = o.panic
          /\ rets' = o.rets
    /\ UNCHANGED <<code, emitted, submitted, stored, written, adjusted, late, last_read>>

NextWide ==
    \/ WideInput
    \/ RunCall
    \/ RunReturn
    \/ WideStep

SpecWide == InitWide /\ [][NextWide]_vars

TypeOK ==
    /\ pc \in {"idle", "running", "panicked"}
    /\ is_finished \in BOOLEAN
    /\ (pc = "panicked") = (panic # "none")

-----------------------------------------------------------------------------
(* The vocabulary of the properties: the instruction set as the            *)
(* specification words it, written without the operators of the model.     *)

\* The content of an address: what was stored there, 0 when nothing was.
Cell(a) == IF a \in DOMAIN memory THEN memory[a] ELSE 0

\* The decimal digit of w at 10^k, for w >= 0.
Digit(w, k) == (w \div (10 ^ k)) % 10

\* The mode digit of the i-th parameter of the instruction word at address p.
ModeDigit(p, i) == Digit(Cell(p), i + 1)

\* Address p holds a well-formed instruction of opcode op with n parameters.
Holds(p, op, n) ==
    /\ p \in DOMAIN memory
    /\ memory[p] >= 0
    /\ memory[p] % 100 = op
    /\ \A i \in 1..n : ModeDigit(p, i) \in {0, 1, 2}

\* The parameter count and the modes as the instruction table gives them.
Arity(op) ==
    CASE op = 99 -> 0
      [] op \in {3, 4, 9} -> 1
      [] op \in {5, 6} -> 2
      [] op \in {1, 2, 7, 8} -> 3

ModeOfDigit(d) ==
    CASE d = 0 -> "Position"
      [] d = 1 -> "Immediate"
      [] d = 2 -> "Relative"

\* value(i) of the instruction at address p: the i-th operand, resolved in its mode.
Value(p, i) ==
    CASE ModeDigit(p, i) = 0 -> Cell(Cell(p + i))
      [] ModeDigit(p, i) = 1 -> Cell(p + i)
      [] ModeDigit(p, i) = 2 -> Cell(Cell(p + i) + rel_base)

\* The write target of the i-th parameter of the instruction at address p.
Target(p, i) ==
    CASE ModeDigit(p, i) = 0 -> Cell(p + i)
      [] ModeDigit(p, i) = 2 -> Cell(p + i) + rel_base

\* The loop of run() is about to fetch the instruction at ip.
Fetching == pc = "running" /\ ~is_finished

IsOutput(r) == r.kind = "Output"

IsFinished(r) == r.kind = "Finished"

\* The values of the Output results among rs, in order.
OutputValues(rs) ==
    LET outs == SelectSeq(rs, IsOutput)
    IN [i \in 1..Len(outs) |-> outs[i].value]

ReturnedFinished == \E i \in 1..Len(rets) : IsFinished(rets[i])

-----------------------------------------------------------------------------
\* C1: when run() executes an output instruction at address p it returns
\* Output(value(a)) at once, with the instruction pointer at p+2 and memory,
\* relative base, input queue and running status as they were; the next run()
\* call enters the loop with the engine as that return left it, so it fetches
\* at p+2.
SuspendOnOutput ==
    [][ /\ (Fetching /\ Holds(ip, 4, 1)) =>
              /\ pc' = "idle"
              /\ rets' = Append(rets, Output(Value(ip, 1)))
              /\ ip' = ip + 2
              /\ UNCHANGED <<memory, rel_base, input_queue, is_finished>>
        /\ (pc = "idle" /\ pc' = "running") => UNCHANGED engine
      ]_vars

\* A run() call resumed after an output, and gave a second output.
ResumedAfterOutput ==
    /\ pc = "idle"
    /\ ~is_finished
    /\ Len(rets) >= 2
    /\ IsOutput(rets[Len(rets)])
    /\ Holds(ip - 2, 4, 1)
    /\ ModeDigit(ip - 2, 1) # 1

\* C2: run() hands control back only at an output or at halt.  The Output
\* values returned are exactly the operand values of the output instructions
\* executed, in order; the call that returned Output(v) ended on the output
\* instruction (the one just before ip) whose operand is v; Finished is
\* returned only when halt has been executed (the word before ip), and no
\* Output follows a Finished.
ReturnsOnlyAtOutputOrHalt ==
    /\ OutputValues(rets) = emitted
    /\ (pc = "idle" /\ rets # << >> /\ IsOutput(rets[Len(rets)])) =>
          /\ Holds(ip - 2, 4, 1)
          /\ rets[Len(rets)].value = Value(ip - 2, 1)
    /\ ReturnedFinished =>
          /\ is_finished
          /\ Holds(ip - 1, 99, 0)
    /\ \A i \in 1..Len(rets) : \A j \in 1..Len(rets) :
          (i < j /\ IsFinished(rets[i])) => IsFinished(rets[j])

\* Several outputs were returned, and then Finished.
OutputsThenFinished ==
    /\ Len(emitted) >= 2
    /\ emitted[1] # emitted[2]
    /\ ReturnedFinished

\* C3: once run() has returned Finished, the finished flag stays set, no call
\* changes memory, instruction pointer or relative base, run() changes nothing
\* of the engine and returns Finished again, and only input() touches the queue.
HaltedIsTerminal ==
    [][ /\ is_finished => is_finished'
        /\ ReturnedFinished =>
              /\ UNCHANGED <<memory, ip, rel_base, is_finished>>
              /\ pc' # "panicked"
              /\ pc = "running" =>
                    /\ pc' = "idle"
                    /\ rets' = Append(rets, Finished)
                    /\ UNCHANGED input_queue
              /\ pc = "idle" =>
                    \/ UNCHANGED input_queue
                    \/ \E v \in InputVals : input_queue' = Append(input_queue, v)
      ]_vars

\* run() returned Finished twice, with input() and read_at() called in between.
FinishedTwice ==
    /\ Len(rets) >= 2
    /\ IsFinished(rets[Len(rets)])
    /\ IsFinished(rets[Len(rets) - 1])
    /\ input_queue # << >>

\* C4: input is consumed first-in-first-out, one value per input instruction.
\* The values stored by the input instructions completed so far are the first
\* values submitted, in order, and the queue holds the rest; the queue changes
\* only by input() appending at the back or by an input instruction removing
\* the front, which it writes to its destination.
InputIsFifo ==
    /\ [](/\ Len(stored) <= Len(submitted)
          /\ stored = SubSeq(submitted, 1, Len(stored))
          /\ panic = "none" =>
                input_queue = SubSeq(submitted, Len(stored) + 1, Len(submitted)))
    /\ [][ /\ input_queue' # input_queue =>
                 \/ /\ pc = "idle"
                    /\ Len(submitted') = Len(submitted) + 1
                    /\ input_queue' = Append(input_queue, submitted'[Len(submitted')])
                 \/ /\ Fetching
                    /\ Holds(ip, 3, 1)
                    /\ input_queue # << >>
                    /\ input_queue' = Tail(input_queue)
           /\ (Fetching /\ Holds(ip, 3, 1) /\ ModeDigit(ip, 1) # 1
                 /\ input_queue # << >>) =>
                 /\ input_queue' = Tail(input_queue)
                 /\ Target(ip, 1) \in DOMAIN memory'
                 /\ memory'[Target(ip, 1)] = Head(input_queue)
                 /\ stored' = Append(stored, Head(input_queue))
         ]_vars

\* Two different values were submitted and both were stored, one is still queued.
TwoInputsStored ==
    /\ Len(stored) = 2
    /\ stored[1] # stored[2]
    /\ panic = "none"

\* C5: an input instruction that executes with the queue empty aborts run():
\* nothing is returned, nothing is written, and the engine does not go on
\* (there is no step after a panic, so it is not waiting for input).
MissingInputIsFatal ==
    [][ /\ (Fetching /\ Holds(ip, 3, 1) /\ input_queue = << >>) =>
              /\ pc' = "panicked"
              /\ panic' = "No input available"
              /\ UNCHANGED <<memory, rets, input_queue, is_finished>>
        /\ pc # "panicked"
      ]_vars

\* An input instruction found the queue empty, on an engine that had run before.
InputMissing ==
    /\ panic = "No input available"
    /\ Len(rets) >= 1
    /\ Holds(ip - 2, 3, 1)

\* The value last written to address a: by an instruction, else by the program
\* image, else 0.
LastWritten(a) ==
    IF a \in DOMAIN written THEN written[a]
    ELSE IF a \in 0..(Len(code) - 1) THEN code[a + 1]
    ELSE 0

\* C6: read_at is total and pure.  The value a read_at call returned is the
\* value last written to the address, or 0 if it was never written, the same
\* is true of every address the caller may ask for, and the call changes no
\* field of the engine (the set of addresses holding a value included).
ReadAtIsPure ==
    /\ [](/\ last_read.kind = "Read" => last_read.value = LastWritten(last_read.pos)
          /\ \A a \in ProbeAddrs \cup DOMAIN written : read_at(a) = LastWritten(a))
    /\ [][ last_read'.kind = "Read" =>
              /\ pc = "idle"
              /\ UNCHANGED <<engine, pc, panic, history>>
              /\ DOMAIN memory' = DOMAIN memory
         ]_vars

\* read_at returned an instruction's write to a negative address ...
ReadNegativeAddress ==
    /\ last_read.kind = "Read"
    /\ last_read.pos < 0
    /\ last_read.value # 0

\* C7: reading an unset address never fails anywhere in the engine: no read of
\* memory made by run() ends in a failure, the fetch of the instruction word at
\* an instruction pointer that holds nothing included (it yields 0).
UnsetReadNeverFails == panic # "key not found"

\* C8: for the program 3,0,4,0,99, input(v) once and run() twice give Output(v)
\* and then Finished, and no call fails.
EchoRoundTrip ==
    (code = Echo /\ Len(submitted) = 1) =>
        /\ panic = "none"
        /\ Len(rets) >= 1 => rets[1] = Output(submitted[1])
        /\ Len(rets) >= 2 => rets[2] = Finished

\* The echo program returned a negative input and then Finished.
EchoedNegative ==
    /\ code = Echo
    /\ Len(submitted) = 1
    /\ submitted[1] < 0
    /\ Len(rets) = 2
    /\ pc = "idle"

\* C9: the quine with no input returns its own sixteen values in order on
\* sixteen run() calls, and Finished on the seventeenth (and on any later one).
QuineOutputsItself ==
    (code = Quine /\ submitted = << >>) =>
        /\ panic = "none"
        /\ \A i \in 1..Len(rets) :
              rets[i] = IF i <= Len(Quine) THEN Output(Quine[i]) ELSE Finished

\* The seventeenth run() call on the quine returned.
QuineFinished ==
    /\ code = Quine
    /\ submitted = << >>
    /\ Len(rets) = Len(Quine) + 1
    /\ pc = "idle"
    /\ rel_base = Len(Quine)
    /\ Cell(100) = Len(Quine)
    /\ Cell(101) = 1

\* C10: for an instruction word w >= 0 the opcode is w mod 100 and the mode of
\* the i-th parameter is the decimal digit of w at 10^(i+1), 0 = position,
\* 1 = immediate, 2 = relative, an absent digit counting as 0; each parameter
\* is the word at ip+i; so 1002,4,3,4,33 and 1101,100,-1,4,0 run to Finished
\* with 99 at address 4.
DecodingByDigits ==
    /\ (Fetching /\ ip \in DOMAIN memory /\ memory[ip] >= 0) =>
          LET w == memory[ip]
              op == w % 100
          IN /\ parse_operation.opcode = op
             /\ op \in (1..9) \cup {99} =>
                   IF \A i \in 1..Arity(op) : Digit(w, i + 1) \in {0, 1, 2}
                   THEN /\ parse_operation.panic = "none"
                        /\ parse_operation.ip = ip + 1 + Arity(op)
                        /\ \A i \in 1..Arity(op) :
                              parse_operation.params[i] =
                                  [mode |-> ModeOfDigit(Digit(w, i + 1)),
                                   value |-> Cell(ip + i)]
                   ELSE parse_operation.panic = "Unknown param mode"
    /\ code \in {ModeMul, ModeAdd} =>
          /\ panic = "none"
          /\ ReturnedFinished => Cell(4) = 99
          /\ rets # << >> => rets[1] = Finished

\* 1002,4,3,4,33 ran to Finished: an immediate operand times a position operand.
ModeMulFinished ==
    /\ code = ModeMul
    /\ ReturnedFinished
    /\ Cell(4) = 99
    /\ ip = 5

PointerAdvancesThenJumps ==
    [][ /\ \A op \in {1, 2, 3, 4, 7, 8, 9, 99} :
              (Fetching /\ Holds(ip, op, Arity(op))) => ip' = ip + 1 + Arity(op)
        /\ (Fetching /\ Holds(ip, 5, 2)) =>
              ip' = IF Value(ip, 1) # 0 THEN Value(ip, 2) ELSE ip + 3
        /\ (Fetching /\ Holds(ip, 6, 2)) =>
              ip' = IF Value(ip, 1) = 0 THEN Value(ip, 2) ELSE ip + 3
      ]_vars

\* The jump of JumpModes was taken to the address its relative-mode target
\* holds, 7, where the output of 5 is.
JumpedToRelativeTarget ==
    /\ code = JumpModes
    /\ emitted = <<5>>
    /\ ip = 9
    /\ rel_base = 2

\* C14: the relative base starts at 0 and is changed only by the
\* adjust-relative-base instruction, which adds value(a) to it: in every state
\* it is the sum of the operands of the adjust-relative-base instructions
\* executed so far, and every other step (any other instruction, input(),
\* read_at(), run() on a halted engine) leaves it as it is.
RelativeBaseIsSumOfAdjustments ==
    /\ rel_base = 0
    /\ [](rel_base = adjusted)
    /\ [][ /\ (Fetching /\ Holds(ip, 9, 1)) => rel_base' = rel_base + Value(ip, 1)
           /\ ~(Fetching /\ Holds(ip, 9, 1)) => rel_base' = rel_base
         ]_vars

\* A loop adjusted the base by a negative operand a second time.
AdjustedTwiceDownwards ==
    /\ rel_base = -4
    /\ pc = "running"
    /\ Holds(ip - 2, 9, 1)
    /\ Value(ip - 2, 1) = -2

\* C15: immediate mode is rejected as a write target.  Add, multiply,
\* less-than, equals and input executed with the destination parameter in
\* immediate mode abort run() with a panic, and no cell of memory is written
\* (the literal is not used as an address).
ImmediateTargetIsFatal ==
    [][ /\ \A op \in {1, 2, 7, 8} :
              (Fetching /\ Holds(ip, op, 3) /\ ModeDigit(ip, 3) = 1) =>
                  /\ pc' = "panicked"
                  /\ panic' = "Output addresses cannot be in immediate mode"
                  /\ memory' = memory
        /\ (Fetching /\ Holds(ip, 3, 1) /\ ModeDigit(ip, 1) = 1) =>
              /\ pc' = "panicked"
              /\ panic' = IF input_queue = << >>
                          THEN "No input available"
                          ELSE "Output addresses cannot be in immediate mode"
              /\ memory' = memory
      ]_vars

\* The less-than of 11107,1,2,0 was refused its immediate destination.
ImmediateTargetRefused ==
    /\ code = <<11107, 1, 2, 0>>
    /\ panic = "Output addresses cannot be in immediate mode"
    /\ ip = 4
    /\ memory = new_memory(code)

\* C16: unknown opcodes are fatal for every instruction word.  When the word
\* at the instruction pointer is not a word w >= 0 with w mod 100 one of 1..9
\* or 99 (low digits 00 or 10..98, any negative word, nothing stored there),
\* run() aborts with a panic and nothing of the engine has changed, nothing is
\* returned: the word is not executed as an instruction.
UnknownOpcodeIsFatal ==
    [][ (Fetching /\ ~(Cell(ip) >= 0 /\ Cell(ip) % 100 \in (1..9) \cup {99})) =>
            /\ pc' = "panicked"
            /\ panic' = IF ip \in DOMAIN memory THEN "Unknown opcode" ELSE "key not found"
            /\ UNCHANGED <<engine, history>>
      ]_vars

\* The word -1, whose floored remainder by 100 would be 99, was rejected.
NegativeWordRejected ==
    /\ code = <<-1, 0, 0, 0>>
    /\ panic = "Unknown opcode"
    /\ ip = 0
    /\ ~is_finished

\* C17: unknown parameter modes are fatal.  When an instruction with a
\* defined opcode has a mode digit in 3..9 for one of its own parameters,
\* run() aborts with a panic while decoding: the instruction has had no
\* effect and the instruction pointer still points at it.
UnknownModeIsFatal ==
    [][ \A op \in (1..9) \cup {99} :
            (/\ Fetching
             /\ Cell(ip) >= 0
             /\ Cell(ip) % 100 = op
             /\ \E i \in 1..Arity(op) : ModeDigit(ip, i) \in 3..9) =>
                /\ pc' = "panicked"
                /\ panic' = "Unknown param mode"
                /\ ip' = ip
                /\ UNCHANGED <<engine, history>>
      ]_vars

\* An add whose third mode digit is 3 was rejected, the first two being valid.
ThirdModeRejected ==
    /\ code = <<30101, 0, 0, 0>>
    /\ panic = "Unknown param mode"
    /\ ip = 0
    /\ memory = new_memory(code)

\* The value add, multiply, less-than and equals compute at address p.
Result(p) ==
    CASE Cell(p) % 100 = 1 -> Value(p, 1) + Value(p, 2)
      [] Cell(p) % 100 = 2 -> Value(p, 1) * Value(p, 2)
      [] Cell(p) % 100 = 7 -> IF Value(p, 1) < Value(p, 2) THEN 1 ELSE 0
      [] Cell(p) % 100 = 8 -> IF Value(p, 1) = Value(p, 2) THEN 1 ELSE 0

\* Memory m with x stored at address t and every other address as it was.
WithCell(m, t, x) ==
    /\ DOMAIN memory' = DOMAIN m \cup {t}
    /\ memory'[t] = x
    /\ \A a \in DOMAIN m \ {t} : memory'[a] = m[a]

\* C18: a write changes exactly one cell, at any integer address.  Add,
\* multiply, less-than, equals and input write their value at the literal of
\* a position-mode destination and at literal + relative base of a
\* relative-mode one, be it negative or beyond the program; every other
\* address keeps its value; less-than and equals write 1 or 0; no other step
\* changes memory, so the cell reads as written until the next write to it.
WriteChangesOneCell ==
    [][ /\ \A op \in {1, 2, 7, 8} :
              (Fetching /\ Holds(ip, op, 3) /\ ModeDigit(ip, 3) # 1) =>
                  \E t \in {Target(ip, 3)} : \E x \in {Result(ip)} :
                      /\ WithCell(memory, t, x)
                      /\ read_at(t)' = x
                      /\ op \in {7, 8} => x \in {0, 1}
        /\ (Fetching /\ Holds(ip, 3, 1) /\ ModeDigit(ip, 1) # 1 /\ input_queue # << >>) =>
              \E t \in {Target(ip, 1)} : \E x \in {Head(input_queue)} :
                  /\ WithCell(memory, t, x)
                  /\ read_at(t)' = x
        /\ memory' # memory =>
              /\ Fetching
              /\ \E op \in {1, 2, 3, 7, 8} : Holds(ip, op, Arity(op))
      ]_vars

\* An input was written through the relative base to address -3, which is
\* the only address below zero that holds a value.
WroteBelowZero ==
    /\ rel_base = -2
    /\ -3 \in DOMAIN memory
    /\ memory[-3] = -3
    /\ Len(stored) = 1
    /\ -1 \notin DOMAIN memory

\* The instruction word at address p has a nonzero digit above the mode digits
\* of the n parameters of its opcode.
HasDigitsAbove(p, n) == Cell(p) \div (10 ^ (n + 2)) # 0

\* C20: only the mode digits of an opcode's own parameters are inspected.  A
\* word with a defined opcode is rejected for a mode exactly when one of its
\* own parameters' digits is not 0, 1 or 2; digits above them change nothing:
\* such a halt halts, such an output returns its operand, such a jump
\* jumps; 30099 halts, 1104 is an immediate output and 31105 an
\* immediate jump.
UpperDigitsIgnored ==
    /\ [][ /\ \A op \in (1..9) \cup {99} :
                 (Fetching /\ Cell(ip) >= 0 /\ Cell(ip) % 100 = op) =>
                     /\ panic' # "Unknown opcode"
                     /\ (panic' = "Unknown param mode") =
                            (\E i \in 1..Arity(op) : ModeDigit(ip, i) \notin {0, 1, 2})
           /\ (Fetching /\ Holds(ip, 99, 0) /\ HasDigitsAbove(ip, 0)) =>
                 /\ is_finished'
                 /\ ip' = ip + 1
                 /\ pc' = "running"
           /\ (Fetching /\ Holds(ip, 4, 1) /\ HasDigitsAbove(ip, 1)) =>
                 /\ rets' = Append(rets, Output(Value(ip, 1)))
                 /\ ip' = ip + 2
           /\ (Fetching /\ Holds(ip, 5, 2) /\ HasDigitsAbove(ip, 2)) =>
                 /\ ip' = IF Value(ip, 1) # 0 THEN Value(ip, 2) ELSE ip + 3
                 /\ pc' = "running"
         ]_vars
    /\ [](/\ code \in {HaltWithDigits, OutputWithDigit, JumpWithDigit} =>
                panic \in {"none", "key not found"}
          /\ (code = HaltWithDigits /\ rets # << >>) => rets[1] = Finished
          /\ (code = OutputWithDigit /\ rets # << >>) => rets[1] = Output(6)
          /\ (code = JumpWithDigit /\ rets # << >>) => rets[1] = Output(8)
          /\ (code = JumpWithDigit /\ Len(rets) >= 2) => rets[2] = Finished)

\* 31105,1,4 jumped to address 4 as 1105,1,4 does, and the program finished.
JumpWithDigitFinished ==
    /\ code = JumpWithDigit
    /\ Len(rets) = 2
    /\ rets[1] = Output(8)
    /\ is_finished

\* The sequences of input values that begin with s.
Extensions(s) ==
    { s \o t : t \in UNION { [1..n -> InputVals] : n \in 0..(MaxInputs - Len(s)) } }

\* The engine given the input values all up front and run as many times as
\* there are results has returned these results and is in this memory,
\* instruction pointer and relative base.
SameAsUpfront(all, results, m, i, base) ==
    LET upfront == EngineRuns(EngineWith(code, all), Len(results), << >>)
    IN /\ upfront.rets = results
       /\ upfront.engine.memory = m
       /\ upfront.engine.ip = i
       /\ upfront.engine.rel_base = base

\* C19: input timing does not matter.  Whenever a run() call of the engine
\* returns, an engine built from the same program and given a whole input
\* sequence up front - the values submitted so far followed by any values still
\* to come - has, after the same number of run() calls, returned the same
\* results and has the same memory, instruction pointer and relative base.
InputTimingIrrelevant ==
    [][ (pc = "running" /\ pc' = "idle") =>
            \A all \in Extensions(submitted) :
                SameAsUpfront(all, rets', memory', ip', rel_base')
      ]_vars

\* A value was submitted after a run() call had returned, and the input
\* instruction that stored it ran in a later call.
InterleavedInputs ==
    /\ pc = "idle"
    /\ late
    /\ stored = submitted
    /\ Len(stored) = 2
    /\ Len(rets) >= 2
    /\ \A i \in 1..2 : IsOutput(rets[i])

\* The quotient and the remainder of the bytes 1..i of w, with rem carried in
\* from the bytes above, divided by 10000.
RECURSIVE DivFrom(_, _, _)
DivFrom(w, i, rem) ==
    IF i = 0 THEN [q |-> << >>, r |-> rem]
    ELSE LET rest == DivFrom(w, i - 1, (rem * 256 + w[i]) % 10000)
         IN [q |-> Append(rest.q, (rem * 256 + w[i]) \div 10000), r |-> rest.r]

\* The decimal digits of a value that is not negative, in groups of four, the
\* most significant group first.
RECURSIVE Decimal(_)
Decimal(w) ==
    IF \A i \in DOMAIN w : w[i] = 0 THEN << >>
    ELSE Decimal(DivFrom(w, Len(w), 0).q) \o <<DivFrom(w, Len(w), 0).r>>

\* The calls of run() so far returned Output of the number with these decimal
\* groups and then Finished, and none has panicked.
OutputsThenFinishes(groups) ==
    /\ panic = "none"
    /\ Len(rets) >= 1 =>
          /\ rets[1].kind = "Output"
          /\ Len(rets[1].value) = IntBits \div 8
          /\ rets[1].value[IntBits \div 8] < 128
          /\ Decimal(rets[1].value) = groups
    /\ \A k \in 2..Len(rets) : rets[k].kind = "Finished"

\* 2^50 times 2^50 and output: a product beyond 64 bits.
BeyondSixtyFour ==
    <<<<1102>>, <<1125, 8999, 684, 2624>>, <<1125, 8999, 684, 2624>>,
      <<7>>, <<4>>, <<7>>, <<99>>, <<0>>>>

\* C12: big-integer fidelity.  1102,34915192,34915192,7,4,7,99,0 returns
\* Output(1219070632396864) and then Finished, 104,1125899906842624,99 returns
\* Output(1125899906842624) and then Finished, and the square of 2^50 is output
\* as 1267650600228229401496703205376: nothing overflows, nothing is truncated.
BigIntegerFidelity ==
    /\ code = BigProduct => OutputsThenFinishes(<<1219, 706, 3239, 6864>>)
    /\ code = BigLiteral => OutputsThenFinishes(<<1125, 8999, 684, 2624>>)
    /\ code = BeyondSixtyFour =>
          OutputsThenFinishes(<<126, 7650, 6002, 2822, 9401, 4967, 320, 5376>>)

\* The 16-digit product was output and the program finished.
BigProductFinished ==
    /\ code = BigProduct
    /\ Len(rets) = 2
    /\ rets[1].kind = "Output"
    /\ Decimal(rets[1].value) = <<1219, 706, 3239, 6864>>
    /\ rets[2].kind = "Finished"
    /\ pc = "idle"

====
